---- MODULE Spec2Model ----
(***************************************************************************)
(* A model of the staged move picker (MovePicker) and of the Monte-Carlo   *)
(* tree search driver (UCT) of the montecarlo branch of Stockfish.         *)
(*                                                                         *)
(* Two specifications share the module:                                    *)
(*   SpecPicker  one MovePicker object, constructed by one of the three    *)
(*               constructors over a small position, and then driven by    *)
(*               repeated next_move(skipQuiets) calls;                     *)
(*   Spec        one UCT object: the constructor, then search().           *)
(***************************************************************************)
EXTENDS Integers, Sequences, FiniteSets, TLC

(***************************************************************************)
(* Bounds of the model                                                     *)
(***************************************************************************)
MaxCaptures == 2     \* at most this many generated captures in a position
MaxQuiets   == 2     \* at most this many generated quiet moves

(***************************************************************************)
(* Moves.  A Move is a number (from << 6) + to; 0 is MOVE_NONE.  The       *)
(* captures of the model are the moves 1..MaxCaptures, the quiet moves are *)
(* QuietBase+1..QuietBase+MaxQuiets.                                       *)
(***************************************************************************)
MOVE_NONE == 0
QuietBase == 64

to_sq(m) == m % 64

(***************************************************************************)
(* enum Stages                                                             *)
(***************************************************************************)
MAIN_TT       == 0
CAPTURE_INIT  == 1
GOOD_CAPTURE  == 2
KILLER0       == 3
KILLER1       == 4
COUNTERMOVE   == 5
QUIET_INIT    == 6
QUIET         == 7
BAD_CAPTURE   == 8
EVASION_TT    == 9
EVASION_INIT  == 10
EVASION       == 11
PROBCUT_TT    == 12
PROBCUT_INIT  == 13
PROBCUT       == 14
QSEARCH_TT    == 15
QCAPTURE_INIT == 16
QCAPTURE      == 17
QCHECK_INIT   == 18
QCHECK        == 19

\* Depth constants of the engine (one ply is one depth unit)
ONE_PLY             == 1
DEPTH_ZERO          == 0
DEPTH_QS_CHECKS     == 0
DEPTH_QS_RECAPTURES == -5

\* C++ integer division truncates toward zero
TruncDiv(a, b) ==
  IF a >= 0 THEN a \div b ELSE -((-a) \div b)

(***************************************************************************)
(* The Position service, as far as the picker consults it.  A position     *)
(* record has                                                              *)
(*   checkers   TRUE iff the side to move is in check                      *)
(*   captures   per capture id 1..n: value of the captured piece, capture  *)
(*              history entry, type of the moving piece, SEE value         *)
(*   quiets     per quiet id QuietBase+1..: butterfly history, the three   *)
(*              continuation history entries, gives-check flag             *)
(***************************************************************************)
CaptureIds(p) == 1..Len(p.captures)
QuietIds(p)   == {QuietBase + i : i \in 1..Len(p.quiets)}

pseudo_legal(p, m) == m \in CaptureIds(p) \cup QuietIds(p)
capture(p, m)      == m >= 1 /\ m < QuietBase

SeeValue(p, m) == IF m \in CaptureIds(p) THEN p.captures[m].see ELSE 0
see_ge(p, m, th) == SeeValue(p, m) >= th

\* generate<CAPTURES>, generate<QUIETS>, generate<QUIET_CHECKS>,
\* generate<EVASIONS>: the generated moves, in generation order
generate_CAPTURES(p) == [i \in 1..Len(p.captures) |-> i]
generate_QUIETS(p)   == [i \in 1..Len(p.quiets) |-> QuietBase + i]

generate_QUIET_CHECKS(p) ==
  LET RECURSIVE F(_)
      F(i) == IF i > Len(p.quiets) THEN << >>
              ELSE IF p.quiets[i].check
                   THEN <<QuietBase + i>> \o F(i + 1) ELSE F(i + 1)
  IN F(1)

generate_EVASIONS(p) == generate_QUIETS(p) \o generate_CAPTURES(p)

\* score<CAPTURES>, score<QUIETS>, score<EVASIONS> for one move
score_CAPTURES(p, m) == p.captures[m].victim + p.captures[m].hist

score_QUIETS(p, m) ==
  LET q == p.quiets[m - QuietBase]
  IN q.main + q.c0 + q.c1 + q.c3

score_EVASIONS(p, m) ==
  IF capture(p, m)
  THEN p.captures[m].victim - p.captures[m].mover
  ELSE p.quiets[m - QuietBase].main - 268435456

(***************************************************************************)
(* The move list.  moves is the ExtMove array of the picker; cur, endMoves *)
(* and endBadCaptures are offsets into it (pointer - moves), so that *q is *)
(* buf[q + 1].  An ExtMove is [move, value].                               *)
(***************************************************************************)

\* for (q = sortedEnd; q != begin && *(q - 1) < tmp; --q) *q = *(q - 1);
\* *q = tmp;
InsertAt_noShift(buf, begin, q, tmp) ==
  [buf EXCEPT ![q + 1] = tmp]

RECURSIVE InsertAt(_, _, _, _)
InsertAt(buf, begin, q, tmp) ==
  IF q # begin /\ buf[q].value < tmp.value
  THEN InsertAt([buf EXCEPT ![q + 1] = buf[q]], begin, q - 1, tmp)
  ELSE [buf EXCEPT ![q + 1] = tmp]

\* the for loop of partial_insertion_sort, at iteration p
RECURSIVE SortLoop(_, _, _, _, _, _)
SortLoop(buf, begin, end, limit, sortedEnd, p) ==
  IF p < end
  THEN IF buf[p + 1].value >= limit
       THEN LET tmp == buf[p + 1]
                se  == sortedEnd + 1
                b1  == [buf EXCEPT ![p + 1] = buf[se + 1]]
            IN SortLoop(InsertAt(b1, begin, se, tmp), begin, end, limit, se, p + 1)
       ELSE SortLoop(buf, begin, end, limit, sortedEnd, p + 1)
  ELSE buf

partial_insertion_sort(buf, begin, end, limit) ==
  SortLoop(buf, begin, end, limit, begin, begin + 1)

\* std::max_element(first, last): the first greatest element of [first, last)
RECURSIVE MaxFrom(_, _, _, _)
MaxFrom(buf, i, last, best) ==
  IF i >= last THEN best
  ELSE MaxFrom(buf, i + 1, last,
               IF buf[best + 1].value < buf[i + 1].value THEN i ELSE best)

max_element(buf, first, last) == MaxFrom(buf, first + 1, last, first)

Swap(buf, i, j) == [buf EXCEPT ![i + 1] = buf[j + 1], ![j + 1] = buf[i + 1]]

\* generate<T>(pos, cur): the generated moves are stored from offset off on;
\* only the move of each ExtMove is assigned, its value is left as it was
WriteMoves(buf, off, list) ==
  LET n == IF Len(buf) > off + Len(list) THEN Len(buf) ELSE off + Len(list)
  IN [i \in 1..n |->
        IF i > off /\ i <= off + Len(list)
        THEN [move |-> list[i - off], value |-> IF i <= Len(buf) THEN buf[i].value ELSE 0]
        ELSE buf[i]]

\* score<Type>(): assigns the value of every move in [cur, endMoves)
score(o, type) ==
  [o EXCEPT !.moves =
     [i \in 1..Len(o.moves) |->
        IF i > o.cur /\ i <= o.endMoves
        THEN [o.moves[i] EXCEPT !.value =
                CASE type = "CAPTURES" -> score_CAPTURES(o.pos, o.moves[i].move)
                  [] type = "QUIETS"   -> score_QUIETS(o.pos, o.moves[i].move)
                  [] OTHER             -> score_EVASIONS(o.pos, o.moves[i].move)]
        ELSE o.moves[i]]]

(***************************************************************************)
(* The filters (the lambdas of next_move), applied to the picker after     *)
(* move = *cur++.  A filter yields [ok, o]: the good-capture filter has an *)
(* effect on the picker.                                                   *)
(***************************************************************************)
GoodCaptureFilter_drop(o) ==
  [ok |-> o.move # o.ttMove
          /\ see_ge(o.pos, o.move, TruncDiv(-55 * o.moves[o.cur].value, 1024)),
   o  |-> o]

GoodCaptureFilter(o) ==
  IF o.move = o.ttMove THEN [ok |-> FALSE, o |-> o]
  ELSE IF see_ge(o.pos, o.move, TruncDiv(-55 * o.moves[o.cur].value, 1024))
  THEN [ok |-> TRUE, o |-> o]
  ELSE \* Move losing capture to endBadCaptures to be tried later
       [ok |-> FALSE,
        o  |-> [o EXCEPT !.moves[o.endBadCaptures + 1].move = o.move,
                         !.endBadCaptures = @ + 1]]

QuietFilter_keepKillers(o) ==
  [ok |-> o.move # o.ttMove /\ o.move # o.countermove, o |-> o]

QuietFilter(o) ==
  [ok |-> o.move # o.ttMove /\ o.move # o.killers[1] /\ o.move # o.killers[2]
          /\ o.move # o.countermove,
   o  |-> o]

NotTTFilter(o) == [ok |-> o.move # o.ttMove, o |-> o]

ProbcutFilter_noSee(o) == [ok |-> o.move # o.ttMove, o |-> o]

ProbcutFilter(o) ==
  [ok |-> o.move # o.ttMove /\ see_ge(o.pos, o.move, o.threshold), o |-> o]

QCaptureFilter_all(o) == [ok |-> o.move # o.ttMove, o |-> o]

QCaptureFilter(o) ==
  [ok |-> o.move # o.ttMove
          /\ (o.depth > DEPTH_QS_RECAPTURES \/ to_sq(o.move) = o.recaptureSquare),
   o  |-> o]

ApplyFilter(filter, o) ==
  CASE filter = "good"     -> GoodCaptureFilter(o)
    [] filter = "quiet"    -> QuietFilter(o)
    [] filter = "probcut"  -> ProbcutFilter(o)
    [] filter = "qcapture" -> QCaptureFilter(o)
    [] OTHER               -> NotTTFilter(o)

\* select_move<T>(filter); T is "BEST_SCORE" or "NEXT".  The result is the
\* picker after the call; the returned move is its member move.
RECURSIVE select_move_stale(_, _, _)
select_move_stale(o, T, filter) ==
  IF o.cur < o.endMoves
  THEN LET o1 == IF T = "BEST_SCORE"
                 THEN [o EXCEPT !.moves =
                         Swap(o.moves, o.cur, max_element(o.moves, o.cur, o.endMoves))]
                 ELSE o
           o2 == [o1 EXCEPT !.move = o1.moves[o1.cur + 1].move, !.cur = @ + 1]
           f  == ApplyFilter(filter, o2)
       IN IF f.ok THEN f.o ELSE select_move_stale(f.o, T, filter)
  ELSE o

RECURSIVE select_move(_, _, _)
select_move(o, T, filter) ==
  IF o.cur < o.endMoves
  THEN LET o1 == IF T = "BEST_SCORE"
                 THEN [o EXCEPT !.moves =
                         Swap(o.moves, o.cur, max_element(o.moves, o.cur, o.endMoves))]
                 ELSE o
           o2 == [o1 EXCEPT !.move = o1.moves[o1.cur + 1].move, !.cur = @ + 1]
           f  == ApplyFilter(filter, o2)
       IN IF f.ok THEN f.o ELSE select_move(f.o, T, filter)
  ELSE [o EXCEPT !.move = MOVE_NONE]

(***************************************************************************)
(* next_move(skipQuiets).  One operator per case label of the switch; a    *)
(* case that falls through calls the operator of the next label.  The      *)
(* result is [o, ret, from]: the picker after the call, the move returned  *)
(* and the case label whose return statement returned it.                  *)
(***************************************************************************)
Ret(o, m, from) == [o |-> o, ret |-> m, from |-> from]

\* case BAD_CAPTURE
BadCaptureStage(o) ==
  LET r == select_move(o, "NEXT", "nott")
  IN Ret(r, r.move, BAD_CAPTURE)

\* case QUIET
QuietStage_ignoreSkip(o, skipQuiets) ==
  LET r == select_move(o, "NEXT", "quiet")
  IN IF r.move # MOVE_NONE
     THEN Ret(r, r.move, QUIET)
     ELSE BadCaptureStage([r EXCEPT !.cur = 0, !.endMoves = r.endBadCaptures,
                                    !.stage = @ + 1])

QuietStage_noAdvance(o, skipQuiets) ==
  LET r == IF ~skipQuiets THEN select_move(o, "NEXT", "quiet") ELSE o
  IN IF ~skipQuiets /\ r.move # MOVE_NONE
     THEN Ret(r, r.move, QUIET)
     ELSE BadCaptureStage([r EXCEPT !.cur = 0, !.endMoves = r.endBadCaptures])

QuietStage(o, skipQuiets) ==
  LET r == IF ~skipQuiets THEN select_move(o, "NEXT", "quiet") ELSE o
  IN IF ~skipQuiets /\ r.move # MOVE_NONE
     THEN Ret(r, r.move, QUIET)
     ELSE \* Point to beginning and end of bad captures
          BadCaptureStage([r EXCEPT !.cur = 0, !.endMoves = r.endBadCaptures,
                                    !.stage = @ + 1])

\* case QUIET_INIT
QuietInitStage(o, skipQuiets) ==
  LET gen == generate_QUIETS(o.pos)
      o1  == [o EXCEPT !.cur = o.endBadCaptures,
                       !.endMoves = o.endBadCaptures + Len(gen),
                       !.moves = WriteMoves(o.moves, o.endBadCaptures, gen)]
      o2  == score(o1, "QUIETS")
      o3  == [o2 EXCEPT !.moves = partial_insertion_sort(o2.moves, o2.cur, o2.endMoves,
                                     TruncDiv(-4000 * o2.depth, ONE_PLY)),
                        !.stage = @ + 1]
  IN QuietStage(o3, skipQuiets)

\* case COUNTERMOVE
CountermoveStage(o, skipQuiets) ==
  LET o1 == [o EXCEPT !.stage = @ + 1, !.move = o.countermove]
      filter ==    o1.move # MOVE_NONE
                /\ o1.move # o1.ttMove
                /\ o1.move # o1.killers[1]
                /\ o1.move # o1.killers[2]
                /\ pseudo_legal(o1.pos, o1.move)
                /\ ~capture(o1.pos, o1.move)
  IN IF filter THEN Ret(o1, o1.move, COUNTERMOVE)
     ELSE QuietInitStage(o1, skipQuiets)

\* case KILLER0, case KILLER1: the do-while loop
RECURSIVE KillerStage(_, _)
KillerStage(o, skipQuiets) ==
  LET st == o.stage + 1
      o1 == [o EXCEPT !.stage = st, !.move = o.killers[st - KILLER1 + 1]]
      filter ==    o1.move # MOVE_NONE
                /\ o1.move # o1.ttMove
                /\ pseudo_legal(o1.pos, o1.move)
                /\ ~capture(o1.pos, o1.move)
  IN IF filter THEN Ret(o1, o1.move, st - 1)
     ELSE IF st <= KILLER1 THEN KillerStage(o1, skipQuiets)
     ELSE CountermoveStage(o1, skipQuiets)

\* case GOOD_CAPTURE
GoodCaptureStage(o, skipQuiets) ==
  LET r == select_move(o, "BEST_SCORE", "good")
  IN IF r.move # MOVE_NONE
     THEN Ret(r, r.move, GOOD_CAPTURE)
     ELSE KillerStage([r EXCEPT !.stage = @ + 1], skipQuiets)

EvasionStage_next(o) ==
  LET r == select_move(o, "NEXT", "nott")
  IN Ret(r, r.move, EVASION)

\* case EVASION
EvasionStage(o) ==
  LET r == select_move(o, "BEST_SCORE", "nott")
  IN Ret(r, r.move, EVASION)

\* case EVASION_INIT
EvasionInitStage(o) ==
  LET gen == generate_EVASIONS(o.pos)
      o1  == [o EXCEPT !.cur = 0, !.endMoves = Len(gen),
                       !.moves = WriteMoves(o.moves, 0, gen)]
      o2  == score(o1, "EVASIONS")
  IN EvasionStage([o2 EXCEPT !.stage = @ + 1])

\* case PROBCUT
ProbcutStage(o) ==
  LET r == select_move(o, "BEST_SCORE", "probcut")
  IN Ret(r, r.move, PROBCUT)

\* case QCHECK
QCheckStage(o) ==
  LET r == select_move(o, "NEXT", "nott")
  IN Ret(r, r.move, QCHECK)

\* case QCHECK_INIT
QCheckInitStage(o) ==
  LET gen == generate_QUIET_CHECKS(o.pos)
  IN QCheckStage([o EXCEPT !.cur = 0, !.endMoves = Len(gen),
                           !.moves = WriteMoves(o.moves, 0, gen),
                           !.stage = @ + 1])

\* case QCAPTURE
QCaptureStage(o) ==
  LET r == select_move(o, "BEST_SCORE", "qcapture")
  IN IF r.move # MOVE_NONE THEN Ret(r, r.move, QCAPTURE)
     \* If we don't have to try checks then we have finished
     ELSE IF r.depth # DEPTH_QS_CHECKS THEN Ret(r, MOVE_NONE, QCAPTURE)
     ELSE QCheckInitStage([r EXCEPT !.stage = @ + 1])

\* case CAPTURE_INIT, PROBCUT_INIT, QCAPTURE_INIT
CaptureInitStage(o, skipQuiets) ==
  LET gen == generate_CAPTURES(o.pos)
      o1  == [o EXCEPT !.endBadCaptures = 0, !.cur = 0, !.endMoves = Len(gen),
                       !.moves = WriteMoves(o.moves, 0, gen)]
      o2  == score(o1, "CAPTURES")
      o3  == [o2 EXCEPT !.stage = @ + 1]
  IN IF o3.stage # GOOD_CAPTURE
     THEN \* goto again
          IF o3.stage = PROBCUT THEN ProbcutStage(o3) ELSE QCaptureStage(o3)
     ELSE GoodCaptureStage(o3, skipQuiets)

\* case MAIN_TT, EVASION_TT, QSEARCH_TT, PROBCUT_TT
TTStage(o) == Ret([o EXCEPT !.stage = @ + 1], o.ttMove, o.stage)

next_move(o, skipQuiets) ==
  CASE o.stage \in {MAIN_TT, EVASION_TT, QSEARCH_TT, PROBCUT_TT} -> TTStage(o)
    [] o.stage \in {CAPTURE_INIT, PROBCUT_INIT, QCAPTURE_INIT} ->
         CaptureInitStage(o, skipQuiets)
    [] o.stage = GOOD_CAPTURE -> GoodCaptureStage(o, skipQuiets)
    [] o.stage \in {KILLER0, KILLER1} -> KillerStage(o, skipQuiets)
    [] o.stage = COUNTERMOVE  -> CountermoveStage(o, skipQuiets)
    [] o.stage = QUIET_INIT   -> QuietInitStage(o, skipQuiets)
    [] o.stage = QUIET        -> QuietStage(o, skipQuiets)
    [] o.stage = BAD_CAPTURE  -> BadCaptureStage(o)
    [] o.stage = EVASION_INIT -> EvasionInitStage(o)
    [] o.stage = EVASION      -> EvasionStage(o)
    [] o.stage = PROBCUT      -> ProbcutStage(o)
    [] o.stage = QCAPTURE     -> QCaptureStage(o)
    [] o.stage = QCHECK_INIT  -> QCheckInitStage(o)
    [] o.stage = QCHECK       -> QCheckStage(o)

(***************************************************************************)
(* The three constructors.  Members a constructor does not initialise and  *)
(* that its variant never reads are set to 0 / the empty list.             *)
(***************************************************************************)
NewPicker(p, stage, ttMove, d, cm, killers, th, rs) ==
  [pos |-> p, stage |-> stage + (IF ttMove = MOVE_NONE THEN 1 ELSE 0),
   ttMove |-> ttMove, depth |-> d, countermove |-> cm, killers |-> killers,
   threshold |-> th, recaptureSquare |-> rs,
   moves |-> << >>, cur |-> 0, endMoves |-> 0, endBadCaptures |-> 0,
   move |-> MOVE_NONE]

MovePickerMain_noLegal(p, ttm, d, cm, killers) ==
  NewPicker(p, IF p.checkers THEN EVASION_TT ELSE MAIN_TT, ttm, d, cm, killers, 0, 0)

\* MovePicker constructor for the main search
MovePickerMain(p, ttm, d, cm, killers) ==
  NewPicker(p, IF p.checkers THEN EVASION_TT ELSE MAIN_TT,
            IF ttm # MOVE_NONE /\ pseudo_legal(p, ttm) THEN ttm ELSE MOVE_NONE,
            d, cm, killers, 0, 0)

\* MovePicker constructor for quiescence search
MovePickerQS(p, ttm, d, rs) ==
  NewPicker(p, IF p.checkers THEN EVASION_TT ELSE QSEARCH_TT,
            IF    ttm # MOVE_NONE
               /\ pseudo_legal(p, ttm)
               /\ (d > DEPTH_QS_RECAPTURES \/ to_sq(ttm) = rs)
            THEN ttm ELSE MOVE_NONE,
            d, MOVE_NONE, <<MOVE_NONE, MOVE_NONE>>, 0, rs)

\* MovePicker constructor for ProbCut
MovePickerProbcut(p, ttm, th) ==
  NewPicker(p, PROBCUT_TT,
            IF    ttm # MOVE_NONE
               /\ pseudo_legal(p, ttm)
               /\ capture(p, ttm)
               /\ see_ge(p, ttm, th)
            THEN ttm ELSE MOVE_NONE,
            0, MOVE_NONE, <<MOVE_NONE, MOVE_NONE>>, th, 0)

(***************************************************************************)
(* The game the tree search runs on.  Positions are 0..NumPositions-1.     *)
(* A game record g gives every position its shape (what the move           *)
(* generator, pos.legal and pos.checkers answer there); a move leads from  *)
(* position p to Dest(p, m); the evaluation of a position is Eval(g, p).   *)
(***************************************************************************)
NumPositions == 4
NumKeys      == 3     \* number of distinct values of pos.key()
TableSize    == 2     \* number of slots of the node table
MAX_EDGES    == 4     \* capacity of the edge list of a node
MaxPly       == 8     \* capacity of nodes[] and of the search stack

Positions == 0..(NumPositions - 1)

Shapes ==
  { \* checkmate or stalemate: no move at all
    [checkers |-> FALSE, captures |-> << >>, quiets |-> << >>, illegal |-> {}],
    \* one quiet move
    [checkers |-> FALSE, captures |-> << >>,
     quiets |-> <<[main |-> 0, c0 |-> 0, c1 |-> 0, c3 |-> 0, check |-> FALSE]>>,
     illegal |-> {}],
    \* a losing capture and two quiet moves
    [checkers |-> FALSE,
     captures |-> <<[victim |-> 100, hist |-> 100, mover |-> 3, see |-> -11]>>,
     quiets |-> <<[main |-> -4000, c0 |-> 0, c1 |-> 0, c3 |-> 0, check |-> FALSE],
                  [main |-> 0, c0 |-> 0, c1 |-> 0, c3 |-> 0, check |-> TRUE]>>,
     illegal |-> {}],
    \* in check: two evasions, the quiet one is not legal
    [checkers |-> TRUE,
     captures |-> <<[victim |-> 100, hist |-> 0, mover |-> 1, see |-> -5]>>,
     quiets |-> <<[main |-> 0, c0 |-> 0, c1 |-> 0, c3 |-> 0, check |-> FALSE]>>,
     illegal |-> {QuietBase + 1}] }

Games ==
  { [shape |-> sh, evalShift |-> e, counterMove |-> cm] :
      sh \in [Positions -> Shapes], e \in 0..2, cm \in {MOVE_NONE, QuietBase + 1} }

\* thread->counterMoves[pos.piece_on(prevSq)][prevSq]
counterMoves(g, prevSq) == g.counterMove

\* pos.key(), pos.pawn_key(): the two parts of the fingerprint.  Two positions
\* never share both parts, but positions NumKeys apart share the first.
Key(p)     == (p % NumKeys) + 1
PawnKey(p) == p \div NumKeys

Dest(p, m) == (p + (IF m < QuietBase THEN m ELSE m - QuietBase + 1)) % NumPositions

legal(g, p, m) == pseudo_legal(g.shape[p], m) /\ m \notin g.shape[p].illegal

\* minimax_value(pos, ss, DEPTH_ZERO): the quiescence value of position p
EvalValues == <<-600, 0, 600>>
Eval(g, p) == EvalValues[((p + g.evalShift) % 3) + 1]

\* value_to_reward(v) = 1 / (1 + exp(k * v)) with exp(600 * k) = 1/3, in
\* hundredths, for the values that are multiples of 600
RECURSIVE Pow3(_)
Pow3(n) == IF n = 0 THEN 1 ELSE 3 * Pow3(n - 1)

value_to_reward(v) ==
  LET j == TruncDiv(v, 600)
  IN IF j >= 0 THEN (100 * Pow3(j)) \div (Pow3(j) + 1)
     ELSE 100 \div (1 + Pow3(-j))

(***************************************************************************)
(* The UCT object u and the node table t.                                  *)
(*   u.pos           the live position: [id, st], st the chain of          *)
(*                   StateInfo records [prev, move] that undo_move unwinds *)
(*   u.rootPosition  the hard copy of the root position                    *)
(*   u.ply, u.stack, u.nodes, u.root, the four counters                    *)
(*   u.failed        the assertions that failed, in order (an NDEBUG build *)
(*                   runs on past them, a debug build aborts at the first) *)
(*   u.crashed       "" or the undefined behaviour the run ended in        *)
(* A Node is the index of its slot in the table.                           *)
(***************************************************************************)
NullNode == -1

ZeroEdge == [visits |-> 0, move |-> MOVE_NONE, prior |-> 0, actionValue |-> 0,
             meanActionValue |-> 0]

\* hExpanded and hRecorded are history: whether generate_moves has expanded
\* the node since get_node last initialised its slot, and how many edges
\* add_prior_to_node has stored in it since then
ZeroNode == [key1 |-> 0, key2 |-> 0, visits |-> 0, sons |-> 0, expandedSons |-> 0,
             lastMove |-> MOVE_NONE, edges |-> << >>,
             hExpanded |-> FALSE, hRecorded |-> 0]

ZeroFrame == [currentMove |-> MOVE_NONE, moveCount |-> 0, ply |-> 0]

\* edges[k] of a node, k counted from 0; memory never written reads as zero
EdgeAt(node, k) == IF k + 1 <= Len(node.edges) THEN node.edges[k + 1] ELSE ZeroEdge

Fail(u, ok, label) == IF ok THEN u ELSE [u EXCEPT !.failed = Append(@, label)]

\* UCTTable[key1]: the slot of a key
SlotOf(key1) == key1 % TableSize

get_node_keepSons(t, p) ==
  LET key1 == Key(p.id)
      key2 == PawnKey(p.id)
      node == SlotOf(key1)
  IN IF t[node].key1 = key1 /\ t[node].key2 = key2
     THEN [t |-> t, node |-> node]
     ELSE [t |-> [t EXCEPT ![node] = [@ EXCEPT !.key1 = key1, !.key2 = key2,
                                               !.visits = 0,
                                               !.expandedSons = 0,
                                               !.lastMove = MOVE_NONE,
                                               !.hExpanded = FALSE,
                                               !.hRecorded = 0]],
           node |-> node]

get_node_key1Only(t, p) ==
  LET key1 == Key(p.id)
      key2 == PawnKey(p.id)
      node == SlotOf(key1)
  IN IF t[node].key1 = key1
     THEN [t |-> t, node |-> node]
     ELSE [t |-> [t EXCEPT ![node] = [@ EXCEPT !.key1 = key1, !.key2 = key2,
                                               !.visits = 0, !.sons = 0,
                                               !.expandedSons = 0,
                                               !.lastMove = MOVE_NONE,
                                               !.hExpanded = FALSE,
                                               !.hRecorded = 0]],
           node |-> node]

get_node(t, p) ==
  LET key1 == Key(p.id)
      key2 == PawnKey(p.id)
      node == SlotOf(key1)
  IN IF t[node].key1 = key1 /\ t[node].key2 = key2
     THEN [t |-> t, node |-> node]
     ELSE [t |-> [t EXCEPT ![node] = [@ EXCEPT !.key1 = key1, !.key2 = key2,
                                               !.visits = 0, !.sons = 0,
                                               !.expandedSons = 0,
                                               !.lastMove = MOVE_NONE,
                                               !.hExpanded = FALSE,
                                               !.hRecorded = 0]],
           node |-> node]

current_node(u) == u.nodes[u.ply]

\* Position::do_move(m, st) and Position::undo_move(m)
pos_do_move(p, m) ==
  [id |-> Dest(p.id, m), st |-> Append(p.st, [prev |-> p.id, move |-> m])]

pos_undo_move_keepState(p, m) ==
  LET top == p.st[Len(p.st)]
  IN [id |-> IF top.move = m THEN top.prev ELSE NumPositions, st |-> p.st]

pos_undo_move(p, m) ==
  LET top == p.st[Len(p.st)]
  IN [id |-> IF top.move = m THEN top.prev ELSE NumPositions,
      st |-> SubSeq(p.st, 1, Len(p.st) - 1)]

do_move(u, m) ==
  [u EXCEPT !.doMoveCnt = @ + 1,
            !.stack[u.ply].ply = u.ply,
            !.stack[u.ply].currentMove = m,
            !.pos = pos_do_move(u.pos, m),
            !.ply = @ + 1]

undo_move(u) ==
  [u EXCEPT !.ply = @ - 1,
            !.pos = pos_undo_move(u.pos, u.stack[u.ply - 1].currentMove)]

\* evaluate_with_minimax(depth): [u, value]
evaluate_with_minimax(u, depth) ==
  [u |-> [u EXCEPT !.stack[u.ply].ply = u.ply,
                   !.stack[u.ply].currentMove = MOVE_NONE],
   value |-> Eval(u.game, u.pos.id)]

\* calculate_prior(move, n): [u, prior]
PriorOf(e) == [u |-> undo_move(e.u), prior |-> value_to_reward(e.value)]

calculate_prior(u, move, n) ==
  PriorOf(evaluate_with_minimax(
            do_move([Fail(u, n >= 0, "calculate_prior: n >= 0")
                       EXCEPT !.priorCnt = @ + 1],
                    move),
            DEPTH_ZERO))

\* add_prior_to_node(node, m, prior, moveCount): [u, t]
add_prior_to_node(u, t, node, m, prior, moveCount) ==
  LET u1 == Fail(u, t[node].sons < MAX_EDGES, "add_prior_to_node: sons < MAX_EDGES")
      n  == t[node].sons
      e  == [visits |-> 0, move |-> m, prior |-> prior, actionValue |-> 0,
             meanActionValue |-> 0]
  IN IF n < MAX_EDGES
     THEN [u |-> Fail(u1, n + 1 = moveCount, "add_prior_to_node: sons == moveCount"),
           t |-> [t EXCEPT ![node].edges = IF n + 1 <= Len(@)
                                           THEN [@ EXCEPT ![n + 1] = e]
                                           ELSE Append(SubSeq(@, 1, n), e),
                           ![node].sons = n + 1,
                           ![node].hRecorded = @ + 1]]
     ELSE [u |-> u1, t |-> t]

\* std::sort(edges, edges + n, ComparePrior): the standard leaves the order of
\* edges of equal prior open, so every descending arrangement is an outcome
ComparePrior(a, b) == a.prior > b.prior

SortOutcomes(edges, n) ==
  { es \in [1..Len(edges) -> {edges[i] : i \in 1..Len(edges)}] :
      /\ \E f \in [1..n -> 1..n] :
           /\ \A i, j \in 1..n : i # j => f[i] # f[j]
           /\ \A i \in 1..n : es[i] = edges[f[i]]
      /\ \A i \in (n + 1)..Len(edges) : es[i] = edges[i]
      /\ \A i \in 1..(n - 1) : ~ComparePrior(es[i + 1], es[i]) }

\* generate_moves(), body of "if (pos.legal(move))": [u, t]
AddSon(c, t, move, moveCount) ==
  add_prior_to_node(c.u, t, current_node(c.u), move, c.prior, moveCount)

LegalMove(u, t, move, moveCount) ==
  AddSon(calculate_prior([u EXCEPT !.stack[u.ply].moveCount = moveCount], move, moveCount),
         t, move, moveCount)

\* the while loop of generate_moves: [u, t]; r is what mp.next_move() returned
RECURSIVE GenerateLoop(_, _, _, _)
RECURSIVE GenerateStep(_, _, _, _)
GenerateNext(a, picker, moveCount) == GenerateLoop(a.u, a.t, picker, moveCount)

GenerateStep(u, t, r, moveCount) ==
  IF r.ret = MOVE_NONE THEN [u |-> u, t |-> t]
  ELSE IF legal(u.game, u.pos.id, r.ret)
       THEN GenerateNext(LegalMove(u, t, r.ret, moveCount + 1), r.o, moveCount + 1)
       ELSE GenerateLoop(u, t, r.o, moveCount)

GenerateLoop(u, t, picker, moveCount) ==
  GenerateStep(u, t, next_move(picker, FALSE), moveCount)

\* generate_moves() up to the sort: [u, t]
GenerateAll(u, t) ==
  LET prevSq      == to_sq(u.stack[u.ply - 1].currentMove)
      countermove == counterMoves(u.game, prevSq)
      ttMove      == MOVE_NONE
      killers     == <<MOVE_NONE, MOVE_NONE>>
      depth       == 30 * ONE_PLY
  IN GenerateLoop(u, t,
                  MovePickerMain(u.game.shape[u.pos.id], ttMove, depth,
                                 countermove, killers),
                  0)

\* generate_moves() from the sort on: the set of outcomes [u, t], one per
\* outcome of the sort
SortAndMark_noSort(g) ==
  LET s == current_node(g.u)
  IN { [u |-> g.u,
        t |-> [g.t EXCEPT ![s].visits = 1, ![s].expandedSons = 0,
                          ![s].hExpanded = TRUE]] }

SortAndMark(g) ==
  LET s == current_node(g.u)
      n == g.t[s].sons
  IN { [u |-> g.u,
        t |-> [g.t EXCEPT ![s].edges = es, ![s].visits = 1,
                          ![s].expandedSons = 0, ![s].hExpanded = TRUE]] :
         es \in IF n > 0 THEN SortOutcomes(g.t[s].edges, n) ELSE {g.t[s].edges} }

\* generate_moves(): the set of outcomes [u, t]
generate_moves(u, t) ==
  SortAndMark(GenerateAll(Fail(u, t[current_node(u)].visits = 0,
                               "generate_moves: visits == 0"),
                          t))

\* create_root(): the set of outcomes [u, t]
RootAsserts(r) ==
  [u |-> Fail(Fail(Fail(r.u, r.u.ply = 1, "create_root: ply == 1"),
                   r.u.root = r.u.nodes[r.u.ply], "create_root: root == nodes[ply]"),
              r.u.root = current_node(r.u), "create_root: root == current_node()"),
   t |-> r.t]

RootNode(u, gn) ==
  LET u2 == [u EXCEPT !.root = gn.node, !.nodes[1] = gn.node]
  IN { RootAsserts(r) :
         r \in IF gn.t[gn.node].visits = 0
               THEN generate_moves(u2, gn.t)
               ELSE {[u |-> u2, t |-> gn.t]} }

create_root(u, t) ==
  RootNode([u EXCEPT !.doMoveCnt = 0, !.descentCnt = 0, !.playoutCnt = 0,
                     !.priorCnt = 0, !.ply = 1,
                     !.stack = [i \in 0..(MaxPly + 1) |-> ZeroFrame],
                     !.rootPosition = u.pos.id,
                     !.nodes = [i \in 1..MaxPly |-> NullNode]],
           get_node(t, u.pos))

\* sqrt(n) in thousandths, rounded down
RECURSIVE SqrtSearch(_, _, _)
SqrtSearch(x, lo, hi) ==
  IF lo >= hi THEN lo
  ELSE LET mid == (lo + hi + 1) \div 2
       IN IF mid * mid <= x THEN SqrtSearch(x, mid, hi) ELSE SqrtSearch(x, lo, mid - 1)

SqrtMilli(n) == SqrtSearch(1000000 * n, 0, 1000 * n)

\* UCB(node, edge, C) in units of 1/100000: [ok, value], ok the assertion
UCB(node, edge, C) ==
  LET fatherVisits == node.visits
  IN [ok |-> fatherVisits > 0,
      value |-> (IF edge.visits # 0 THEN (1000 * edge.actionValue) \div edge.visits
                 ELSE 0)
                + (C * edge.prior * SqrtMilli(fatherVisits)) \div (1 + edge.visits)]

\* bestValue = -100000000.0: below every UCB score
LowestValue == -100000000

\* the second loop of best_move: [ok, best, k]; k the index of the edge of best
RECURSIVE BestLoop(_, _, _, _, _, _, _)
BestStep_lastWins(node, C, k, bestValue, best, bestK, ok, r) ==
  IF r.value >= bestValue
  THEN BestLoop(node, C, k + 1, r.value, EdgeAt(node, k).move, k, ok /\ r.ok)
  ELSE BestLoop(node, C, k + 1, bestValue, best, bestK, ok /\ r.ok)

BestStep(node, C, k, bestValue, best, bestK, ok, r) ==
  IF r.value > bestValue
  THEN BestLoop(node, C, k + 1, r.value, EdgeAt(node, k).move, k, ok /\ r.ok)
  ELSE BestLoop(node, C, k + 1, bestValue, best, bestK, ok /\ r.ok)

BestLoop(node, C, k, bestValue, best, bestK, ok) ==
  IF k >= node.sons THEN [ok |-> ok, best |-> best, k |-> bestK]
  ELSE BestStep(node, C, k, bestValue, best, bestK, ok, UCB(node, EdgeAt(node, k), C))

BestReturn(u, r) ==
  [u |-> Fail(u, r.ok, "UCB: fatherVisits > 0"), move |-> r.best, k |-> r.k]

best_move(u, t, node, C) ==
  BestReturn(u, BestLoop(t[node], C, 0, LowestValue, MOVE_NONE, -1, TRUE))

get_exploration_constant(u) == u.explorationConstant

computational_budget(u) ==
  [u |-> Fail(u, current_node(u) = u.root, "computational_budget: current_node() == root"),
   go |-> u.descentCnt < 5]

\* the while loop of tree_policy: [u, t, undefined]
RECURSIVE TreeLoop(_, _)
SetCurrent(u, gn) == TreeLoop([u EXCEPT !.nodes[u.ply] = gn.node], gn.t)

Advance(u, t, m) == SetCurrent(do_move(u, m), get_node(t, pos_do_move(u.pos, m)))

TreeStep(u, t, b) ==
  LET u2 == [Fail(b.u, legal(u.game, u.pos.id, b.move), "tree_policy: pos.legal(m)")
               EXCEPT !.path = Append(@, [node |-> current_node(u), k |-> b.k])]
  IN IF ~legal(u.game, u.pos.id, b.move)
     THEN [u |-> u2, t |-> t, undefined |-> "pos.do_move(m) with m not legal"]
     ELSE IF u.ply >= MaxPly
     THEN [u |-> u2, t |-> t, undefined |-> "nodes[ply] with ply > MAX_PLY"]
     ELSE Advance(u2, t, b.move)

TreeLoop(u, t) ==
  IF t[current_node(u)].visits > 0
  THEN TreeStep(u, t, best_move(u, t, current_node(u), get_exploration_constant(u)))
  ELSE [u |-> u, t |-> t, undefined |-> ""]

\* tree_policy(): [u, t, node, undefined]
TreeReturn(r) ==
  [u |-> Fail(r.u, r.undefined # "" \/ r.t[current_node(r.u)].visits = 0,
              "tree_policy: visits == 0"),
   t |-> r.t, node |-> current_node(r.u), undefined |-> r.undefined]

tree_policy(u, t) ==
  TreeReturn(TreeLoop([Fail(u, current_node(u) = u.root,
                            "tree_policy: current_node() == root")
                         EXCEPT !.descentCnt = @ + 1, !.path = << >>],
                      t))

\* playout_policy(node): the set of outcomes [u, t, reward]
PlayoutAsserts(r, old) ==
  [u |-> Fail(Fail(Fail(r.u, r.t[current_node(r.u)].visits = 1,
                        "playout_policy: visits == 1"),
                   r.t[current_node(r.u)].sons > 0, "playout_policy: sons > 0"),
              current_node(r.u) = old, "playout_policy: current_node() == old"),
   t |-> r.t,
   reward |-> EdgeAt(r.t[current_node(r.u)], 0).prior]

playout_policy(u, t, node) ==
  { PlayoutAsserts(r, current_node(u)) :
      r \in generate_moves([Fail(u, t[current_node(u)].visits = 0,
                                 "playout_policy: visits == 0")
                              EXCEPT !.playoutCnt = @ + 1],
                           t) }

backup_counts(u, t, node, r) ==
  [u |-> Fail(u, current_node(u) = u.root, "backup: current_node() == root"),
   t |-> IF u.path = << >> \/ u.path[Len(u.path)].k < 0
            \/ u.path[Len(u.path)].k + 1 > Len(t[u.path[Len(u.path)].node].edges)
         THEN t
         ELSE [t EXCEPT ![u.path[Len(u.path)].node].edges[u.path[Len(u.path)].k + 1].visits
                          = @ + 1,
                        ![u.path[Len(u.path)].node].edges[u.path[Len(u.path)].k + 1].actionValue
                          = @ + r]]

\* backup(node, r): [u, t]
backup(u, t, node, r) ==
  [u |-> Fail(u, current_node(u) = u.root, "backup: current_node() == root"),
   t |-> t]

(***************************************************************************)
(* State.  SpecPicker moves the first group of variables and Spec the      *)
(* second; each leaves the other group at its idle value.                  *)
(***************************************************************************)
VARIABLES
  mp,          \* the MovePicker object
  args,        \* the constructor call that built it
  yielded,     \* history: the moves returned so far (none excluded), with
               \* the case label that returned each
  firstCall,   \* history: << >> before the first call, then <<[ret, from]>>
  lastRet,     \* history: what the last call returned
  noneSeen,    \* history: TRUE once a call has returned MOVE_NONE
  skipAtQuiet, \* history: TRUE once a call with skipQuiets set has run case QUIET
  uct,         \* the UCT object
  UCTTable,    \* the global node table: slot -> node
  pc,          \* where the caller of the UCT object stands: in search() one of
               \* "budget", "tree", "playout", "backup", "best"; "constructed"
               \* before search() and "done" after it; "abort" when a debug
               \* build stopped at a failed assertion; "undefined" when the
               \* run left defined behaviour
  ndebug,      \* TRUE: assertions are compiled out and the run goes on past
               \* one that would fail; FALSE: the run aborts there
  node,        \* search(): the local variable node
  reward,      \* search(): the local variable reward
  result,      \* what search() returned
  hist         \* history: the table, ply and nodes[] when backup was entered

pickerVars == <<mp, args, yielded, firstCall, lastRet, noneSeen, skipAtQuiet>>

uctVars == <<uct, UCTTable, pc, ndebug, node, reward, result, hist>>

vars == <<mp, args, yielded, firstCall, lastRet, noneSeen, skipAtQuiet,
          uct, UCTTable, pc, ndebug, node, reward, result, hist>>

(***************************************************************************)
(* SpecPicker: one MovePicker, constructed over a position drawn from the  *)
(* bounded sets below and driven by next_move calls.                       *)
(***************************************************************************)

\* all sequences over S of length at most n
SeqsUpTo(S, n) == UNION {[1..k -> S] : k \in 0..n}

CaptureKinds ==
  { [victim |-> 100, hist |-> 0,   mover |-> 1, see |-> -5],
    [victim |-> 100, hist |-> 100, mover |-> 3, see |-> -11] }

QuietKinds ==
  { [main |-> -4000, c0 |-> 0,     c1 |-> 0,    c3 |-> 0,    check |-> TRUE],
    [main |-> -4000, c0 |-> -4000, c1 |-> 0,    c3 |-> 0,    check |-> FALSE],
    [main |-> -4000, c0 |-> -4000, c1 |-> -500, c3 |-> -500, check |-> TRUE] }

PositionsOf(inCheck) ==
  { [checkers |-> inCheck, captures |-> c, quiets |-> q] :
      c \in SeqsUpTo(CaptureKinds, MaxCaptures), q \in SeqsUpTo(QuietKinds, MaxQuiets) }

\* the moves handed to the constructors as hash move, killers, countermove
HashMoves    == {MOVE_NONE, 1, QuietBase + 1}
Killer0Moves == {MOVE_NONE, QuietBase + 1}
Killer1Moves == {MOVE_NONE, 1, QuietBase + 1, QuietBase + 2}
CounterMoves == {MOVE_NONE, QuietBase + 1}
MainDepths   == {1, 2}
QSDepths     == {DEPTH_QS_CHECKS, -1, DEPTH_QS_RECAPTURES}
Squares      == {1, 2}
Thresholds   == {-11, -5, 0}

ZeroUCT ==
  [game |-> [shape |-> [p \in Positions |-> CHOOSE sh \in Shapes : sh.quiets = << >>],
             evalShift |-> 0, counterMove |-> MOVE_NONE],
   pos |-> [id |-> 0, st |-> << >>], rootPosition |-> 0, ply |-> 0,
   stack |-> [i \in 0..(MaxPly + 1) |-> ZeroFrame],
   nodes |-> [i \in 1..MaxPly |-> NullNode], root |-> NullNode,
   doMoveCnt |-> 0, descentCnt |-> 0, playoutCnt |-> 0, priorCnt |-> 0,
   explorationConstant |-> 0, failed |-> << >>, path |-> << >>]

ZeroTable == [i \in 0..(TableSize - 1) |-> ZeroNode]

ZeroHist == [t |-> ZeroTable, ply |-> 0, nodes |-> [i \in 1..MaxPly |-> NullNode]]

UCTIdle ==
  /\ uct = ZeroUCT
  /\ UCTTable = ZeroTable
  /\ pc = "idle"
  /\ ndebug = TRUE
  /\ node = NullNode
  /\ reward = 0
  /\ result = MOVE_NONE
  /\ hist = ZeroHist

PickerStart(o, a) ==
  /\ UCTIdle
  /\ mp = o
  /\ args = a
  /\ yielded = << >>
  /\ firstCall = << >>
  /\ lastRet = MOVE_NONE
  /\ noneSeen = FALSE
  /\ skipAtQuiet = FALSE

InitMain ==
  \E inCheck \in BOOLEAN :
  \E p \in PositionsOf(inCheck), ttm \in HashMoves, d \in MainDepths,
     cm \in CounterMoves, k0 \in Killer0Moves, k1 \in Killer1Moves :
       /\ inCheck => (cm = MOVE_NONE /\ k0 = MOVE_NONE /\ k1 = MOVE_NONE /\ d = 1)
       /\ PickerStart(MovePickerMain(p, ttm, d, cm, <<k0, k1>>),
                      [variant |-> "main", ttm |-> ttm, depth |-> d,
                       recaptureSquare |-> 0, threshold |-> 0])

InitQS ==
  \E inCheck \in BOOLEAN :
  \E p \in PositionsOf(inCheck), ttm \in HashMoves, d \in QSDepths, rs \in Squares :
       PickerStart(MovePickerQS(p, ttm, d, rs),
                   [variant |-> "qsearch", ttm |-> ttm, depth |-> d,
                    recaptureSquare |-> rs, threshold |-> 0])

InitProbcut ==
  \E p \in PositionsOf(FALSE), ttm \in HashMoves, th \in Thresholds :
       PickerStart(MovePickerProbcut(p, ttm, th),
                   [variant |-> "probcut", ttm |-> ttm, depth |-> 0,
                    recaptureSquare |-> 0, threshold |-> th])

InitPicker == InitMain \/ InitQS \/ InitProbcut

\* one call of next_move(skipQuiets)
NextMoveCall(skipQuiets) ==
  LET r == next_move(mp, skipQuiets)
  IN /\ mp' = r.o
     /\ yielded' = IF r.ret # MOVE_NONE
                   THEN Append(yielded, [move |-> r.ret, from |-> r.from])
                   ELSE yielded
     /\ firstCall' = IF firstCall = << >>
                     THEN <<[ret |-> r.ret, from |-> r.from]>> ELSE firstCall
     /\ lastRet' = r.ret
     /\ noneSeen' = (noneSeen \/ r.ret = MOVE_NONE)
     /\ skipAtQuiet' = (skipAtQuiet \/ (skipQuiets /\ mp.stage <= QUIET
                                         /\ r.from \in {QUIET, BAD_CAPTURE}))
     /\ UNCHANGED args
     /\ UNCHANGED uctVars

NextPicker == \E skipQuiets \in BOOLEAN : NextMoveCall(skipQuiets)

SpecPicker == InitPicker /\ [][NextPicker]_vars

(***************************************************************************)
(* Spec: one UCT object.  Init is the state the constructor leaves: the    *)
(* table, a zeroed global, has gone through one create_root().  Then       *)
(* search() runs, one action per call it makes.                            *)
(***************************************************************************)
DefaultExplorationConstant == 10

PickerIdle ==
  /\ mp = NewPicker([checkers |-> FALSE, captures |-> << >>, quiets |-> << >>],
                    MAIN_TT, MOVE_NONE, 1, MOVE_NONE, <<MOVE_NONE, MOVE_NONE>>, 0, 0)
  /\ args = [variant |-> "none", ttm |-> MOVE_NONE, depth |-> 0,
             recaptureSquare |-> 0, threshold |-> 0]
  /\ yielded = << >>
  /\ firstCall = << >>
  /\ lastRet = MOVE_NONE
  /\ noneSeen = FALSE
  /\ skipAtQuiet = FALSE

\* where the run stands after a handler that left the object as u and was to
\* go on at next
After(u, next, undefined) ==
  IF ~ndebug /\ u.failed # << >> THEN "abort"
  ELSE IF undefined # "" THEN "undefined"
  ELSE next

Init ==
  /\ PickerIdle
  /\ ndebug \in BOOLEAN
  /\ \E g \in Games :
       \E r \in create_root([ZeroUCT EXCEPT !.game = g,
                                            !.explorationConstant =
                                               DefaultExplorationConstant],
                            ZeroTable) :
         /\ uct = r.u
         /\ UCTTable = r.t
         /\ pc = After(r.u, "constructed", "")
  /\ node = NullNode
  /\ reward = 0
  /\ result = MOVE_NONE
  /\ hist = ZeroHist

\* search(): create_root()
CreateRoot ==
  /\ pc = "constructed"
  /\ \E r \in create_root(uct, UCTTable) :
       /\ uct' = r.u
       /\ UCTTable' = r.t
       /\ pc' = After(r.u, "budget", "")
  /\ UNCHANGED <<ndebug, node, reward, result, hist>>
  /\ UNCHANGED pickerVars

\* search(): while (computational_budget())
ComputationalBudget ==
  /\ pc = "budget"
  /\ LET r == computational_budget(uct)
     IN /\ uct' = r.u
        /\ pc' = After(r.u, IF r.go THEN "tree" ELSE "best", "")
  /\ UNCHANGED <<UCTTable, ndebug, node, reward, result, hist>>
  /\ UNCHANGED pickerVars

\* search(): Node node = tree_policy()
TreePolicy ==
  /\ pc = "tree"
  /\ LET r == tree_policy(uct, UCTTable)
     IN /\ uct' = r.u
        /\ UCTTable' = r.t
        /\ node' = r.node
        /\ pc' = After(r.u, "playout", r.undefined)
  /\ UNCHANGED <<ndebug, reward, result, hist>>
  /\ UNCHANGED pickerVars

\* search(): Reward reward = playout_policy(node)
PlayoutPolicy ==
  /\ pc = "playout"
  /\ \E r \in playout_policy(uct, UCTTable, node) :
       /\ uct' = r.u
       /\ UCTTable' = r.t
       /\ reward' = r.reward
       /\ pc' = After(r.u, "backup", "")
  /\ UNCHANGED <<ndebug, node, result, hist>>
  /\ UNCHANGED pickerVars

\* search(): backup(node, reward)
Backup ==
  /\ pc = "backup"
  /\ LET r == backup(uct, UCTTable, node, reward)
     IN /\ uct' = r.u
        /\ UCTTable' = r.t
        /\ pc' = After(r.u, "budget", "")
  /\ hist' = [t |-> UCTTable, ply |-> uct.ply, nodes |-> uct.nodes]
  /\ UNCHANGED <<ndebug, node, reward, result>>
  /\ UNCHANGED pickerVars

\* search(): return best_move(root, 0.0)
BestMove ==
  /\ pc = "best"
  /\ LET r == best_move(uct, UCTTable, uct.root, 0)
     IN /\ uct' = r.u
        /\ result' = r.move
        /\ pc' = After(r.u, "done", "")
  /\ UNCHANGED <<UCTTable, ndebug, node, reward, hist>>
  /\ UNCHANGED pickerVars

Next ==
  \/ CreateRoot
  \/ ComputationalBudget
  \/ TreePolicy
  \/ PlayoutPolicy
  \/ Backup
  \/ BestMove

Spec == Init /\ [][Next]_vars

(***************************************************************************)
(* SpecBestMove: best_move as a function of the node it is given.  The     *)
(* node, with edges whose visit counts, priors and action values are drawn *)
(* from the bounded sets below, sits in slot 0 of the table; the one       *)
(* action calls best_move on it with an exploration constant C.            *)
(***************************************************************************)
MaxSons == 3     \* at most this many edges in the node given to best_move

\* visits, prior (hundredths), actionValue (hundredths) of an edge; the
\* quotients of UCB are exact for these
EdgeKinds ==
  { [visits |-> 0, prior |-> 25, actionValue |-> 0],
    [visits |-> 0, prior |-> 50, actionValue |-> 0],
    [visits |-> 1, prior |-> 50, actionValue |-> 0],
    [visits |-> 1, prior |-> 50, actionValue |-> 75],
    [visits |-> 3, prior |-> 75, actionValue |-> 150],
    [visits |-> 3, prior |-> 25, actionValue |-> 75] }

FatherVisits == {0, 1, 4}

ExplorationConstants == {0, DefaultExplorationConstant}

\* the node with the given edges; edge k (from 0) carries the move k + 1
NodeOf(kinds, visits) ==
  [ZeroNode EXCEPT !.key1 = 1, !.visits = visits, !.sons = Len(kinds),
                   !.hExpanded = TRUE, !.hRecorded = Len(kinds),
                   !.edges = [k \in 1..Len(kinds) |->
                                [visits |-> kinds[k].visits, move |-> k,
                                 prior |-> kinds[k].prior,
                                 actionValue |-> kinds[k].actionValue,
                                 meanActionValue |-> 0]]]

InitBestMove ==
  /\ PickerIdle
  /\ ndebug = TRUE
  /\ \E n \in 1..MaxSons, C \in ExplorationConstants, v \in FatherVisits :
       \E kinds \in [1..n -> EdgeKinds] :
         /\ UCTTable = [ZeroTable EXCEPT ![0] = NodeOf(kinds, v)]
         /\ uct = [ZeroUCT EXCEPT !.ply = 1, !.nodes[1] = 0, !.root = 0,
                                  !.explorationConstant = C]
  /\ pc = "best_move"
  /\ node = 0
  /\ reward = 0
  /\ result = MOVE_NONE
  /\ hist = ZeroHist

\* Move m = best_move(node, C)
BestMoveCall ==
  /\ pc = "best_move"
  /\ LET r == best_move(uct, UCTTable, node, get_exploration_constant(uct))
     IN /\ uct' = r.u
        /\ result' = r.move
  /\ pc' = "returned"
  /\ UNCHANGED <<UCTTable, ndebug, node, reward, hist>>
  /\ UNCHANGED pickerVars

NextBestMove == BestMoveCall

SpecBestMove == InitBestMove /\ [][NextBestMove]_vars

(***************************************************************************)
(* get_node on its own: the table holds, slot by slot, nothing or a node   *)
(* of a position of that slot, unexpanded or expanded, and positions are   *)
(* looked up one after the other.                                          *)
(***************************************************************************)

\* edge lists a slot may carry: none, one edge, two edges
EdgeLists ==
  { << >>,
    <<[ZeroEdge EXCEPT !.move = QuietBase + 1, !.prior = 50]>>,
    <<[ZeroEdge EXCEPT !.move = 1, !.prior = 75],
      [ZeroEdge EXCEPT !.move = QuietBase + 1, !.prior = 25]>> }

\* the nodes slot i may hold: zeroed memory, or a node get_node initialised
\* for a position of that slot, as get_node left it (its edge list that of
\* an earlier occupant) or as generate_moves left it
NodesOfSlot(i) ==
  {ZeroNode} \cup
  UNION { { [ZeroNode EXCEPT !.key1 = Key(p), !.key2 = PawnKey(p), !.edges = es]
              : es \in EdgeLists }
          \cup
          { [ZeroNode EXCEPT !.key1 = Key(p), !.key2 = PawnKey(p), !.visits = 1,
                             !.sons = Len(es), !.edges = es,
                             !.hExpanded = TRUE, !.hRecorded = Len(es)]
              : es \in EdgeLists }
        : p \in {q \in Positions : SlotOf(Key(q)) = i} }

InitGetNode ==
  /\ PickerIdle
  /\ ndebug = TRUE
  /\ UCTTable \in [0..(TableSize - 1) -> UNION {NodesOfSlot(i) : i \in 0..(TableSize - 1)}]
  /\ \A i \in 0..(TableSize - 1) : UCTTable[i] \in NodesOfSlot(i)
  /\ uct = ZeroUCT
  /\ pc = "get_node"
  /\ node = NullNode
  /\ reward = 0
  /\ result = MOVE_NONE
  /\ hist = ZeroHist

\* Node node = get_node(pos), for a position pos
GetNodeCall ==
  /\ pc \in {"get_node", "looked_up"}
  /\ \E p \in Positions :
       LET pos == [id |-> p, st |-> << >>]
           r   == get_node(UCTTable, pos)
       IN /\ uct' = [uct EXCEPT !.pos = pos]
          /\ UCTTable' = r.t
          /\ node' = r.node
  /\ hist' = [hist EXCEPT !.t = UCTTable]
  /\ pc' = "looked_up"
  /\ UNCHANGED <<ndebug, reward, result>>
  /\ UNCHANGED pickerVars

NextGetNode == GetNodeCall

SpecGetNode == InitGetNode /\ [][NextGetNode]_vars

(***************************************************************************)
(* tree_policy started at the root of a search, on a table that earlier    *)
(* UCT objects have written: UCTTable is one global table, every           *)
(* constructor expands its root in it, and nothing clears it.              *)
(***************************************************************************)
MaxObjects == 2     \* at most this many UCT objects constructed before

\* UCT::UCT(p) on position p, for a game g and a table t
Construct(g, p, t) ==
  create_root([ZeroUCT EXCEPT !.game = g, !.pos = [id |-> p, st |-> << >>],
                              !.explorationConstant = DefaultExplorationConstant],
              t)

\* the tables after constructing UCT objects on the positions ps, in order
RECURSIVE ConstructAll(_, _, _)
ConstructAll(g, ps, t) ==
  IF ps = << >> THEN {t}
  ELSE UNION { ConstructAll(g, Tail(ps), r.t) : r \in Construct(g, Head(ps), t) }

InitTreePolicy ==
  /\ PickerIdle
  /\ ndebug \in BOOLEAN
  /\ \E g \in Games, ps \in SeqsUpTo(Positions, MaxObjects) :
       \E t \in ConstructAll(g, ps, ZeroTable) :
         \E r \in Construct(g, 0, t) :
           /\ uct = r.u
           /\ UCTTable = r.t
           /\ pc = After(r.u, "constructed", "")
  /\ node = NullNode
  /\ reward = 0
  /\ result = MOVE_NONE
  /\ hist = ZeroHist

\* search(): the first Node node = tree_policy()
TreePolicyCall ==
  /\ pc = "tree"
  /\ LET r == tree_policy(uct, UCTTable)
     IN /\ uct' = r.u
        /\ UCTTable' = r.t
        /\ node' = r.node
        /\ pc' = After(r.u, "selected", r.undefined)
  /\ hist' = [t |-> UCTTable, ply |-> uct.ply, nodes |-> uct.nodes]
  /\ UNCHANGED <<ndebug, reward, result>>
  /\ UNCHANGED pickerVars

NextTreePolicy ==
  \/ CreateRoot
  \/ ComputationalBudget
  \/ TreePolicyCall

SpecTreePolicy == InitTreePolicy /\ [][NextTreePolicy]_vars

(***************************************************************************)
(* Properties of the move picker (checked under SpecPicker)                *)
(***************************************************************************)
MainPicker == args.variant = "main" /\ ~mp.pos.checkers

YieldedAt(m) == {i \in 1..Len(yielded) : yielded[i].move = m}

\* the static-exchange check of the good-capture stage for capture m
GoodCapture(p, m) == see_ge(p, m, TruncDiv(-55 * score_CAPTURES(p, m), 1024))

\* C4: in the main-search variant no action is returned twice by the calls
\* up to the first none, whatever the hash move, killers and countermove are.
C4_NoActionTwice ==
  MainPicker =>
    \A i, j \in 1..Len(yielded) : i # j => yielded[i].move # yielded[j].move

\* C5 as stated: when the main picker is exhausted every generated capture
\* was returned exactly once, by the good-capture stage if its static
\* exchange check succeeds and by the bad-capture stage otherwise.
C5_PartitionAllCaptures ==
  (MainPicker /\ noneSeen) =>
    \A c \in CaptureIds(mp.pos) :
      \E i \in 1..Len(yielded) :
        /\ YieldedAt(c) = {i}
        /\ yielded[i].from = IF GoodCapture(mp.pos, c) THEN GOOD_CAPTURE ELSE BAD_CAPTURE

\* C5 (amended): when the main picker is exhausted every generated capture
\* was returned exactly once; the hash move by the hash stage, every other
\* capture by the good-capture stage if its static exchange check against
\* -55 * score / 1024 succeeds and by the bad-capture stage otherwise.
C5_CapturePartition ==
  (MainPicker /\ noneSeen) =>
    \A c \in CaptureIds(mp.pos) :
      \E i \in 1..Len(yielded) :
        /\ YieldedAt(c) = {i}
        /\ yielded[i].from = IF c = mp.ttMove THEN MAIN_TT
                             ELSE IF GoodCapture(mp.pos, c) THEN GOOD_CAPTURE
                             ELSE BAD_CAPTURE

C5_Witness ==
  /\ MainPicker /\ noneSeen
  /\ \E i, j \in 1..Len(yielded) :
       /\ i < j
       /\ yielded[i].from = GOOD_CAPTURE
       /\ yielded[j].from = BAD_CAPTURE
       /\ yielded[j].move < yielded[i].move

\* the quiet moves as the quiet stage holds them: offsets endBadCaptures to
\* endMoves - 1 of the move list, while stage = QUIET
QuietList == SubSeq(mp.moves, mp.endBadCaptures + 1, mp.endMoves)
QuietLimit == TruncDiv(-4000 * mp.depth, ONE_PLY)
QuietYields == SelectSeq(yielded, LAMBDA y : y.from = QUIET)

SortedIsPermutation ==
  \A m \in QuietIds(mp.pos) :
    Cardinality({i \in 1..Len(QuietList) : QuietList[i].move = m}) = 1

C6_TieWitness ==
  /\ MainPicker /\ mp.stage = QUIET
  /\ \E i, j \in 1..Len(QuietList) :
       i < j /\ QuietList[i].value >= QuietLimit
             /\ QuietList[i].value = QuietList[j].value

\* what each case label may return in the main-search variant
StageContent(y) ==
  CASE y.from = MAIN_TT      -> y.move = mp.ttMove
    [] y.from = GOOD_CAPTURE -> y.move \in CaptureIds(mp.pos)
    [] y.from = KILLER0      -> y.move = mp.killers[1]
    [] y.from = KILLER1      -> y.move = mp.killers[2]
    [] y.from = COUNTERMOVE  -> y.move = mp.countermove
    [] y.from = QUIET        -> y.move \in QuietIds(mp.pos)
    [] y.from = BAD_CAPTURE  -> y.move \in CaptureIds(mp.pos)
    [] OTHER                 -> FALSE

StageOrder ==
  MainPicker =>
    /\ \A i \in 1..Len(yielded) : StageContent(yielded[i])
    /\ \A i, j \in 1..Len(yielded) : i < j => yielded[i].from <= yielded[j].from
    /\ \A i, j \in 1..Len(yielded) :
         (i < j /\ yielded[i].from = yielded[j].from)
           => yielded[i].from \in {GOOD_CAPTURE, QUIET, BAD_CAPTURE}

\* C7: in the main-search variant, not in check, the stage never decreases
\* from one call to the next, and the moves are returned in the order hash
\* move, good captures, killer 0, killer 1, countermove, quiets, bad captures:
\* no move of an earlier stage follows a move of a later one.
C7_StageOrder ==
  /\ []StageOrder
  /\ [][MainPicker => mp'.stage >= mp.stage]_vars

C7_Witness ==
  /\ MainPicker
  /\ noneSeen
  /\ \E i1, i2, i3, i4 \in 1..Len(yielded) :
       /\ yielded[i1].from = GOOD_CAPTURE
       /\ yielded[i2].from = KILLER0
       /\ yielded[i3].from = QUIET
       /\ yielded[i4].from = BAD_CAPTURE

\* the condition under which a constructor keeps the suggested hash move
HashMoveKept ==
  /\ args.ttm # MOVE_NONE
  /\ pseudo_legal(mp.pos, args.ttm)
  /\ args.variant = "qsearch" =>
       (args.depth > DEPTH_QS_RECAPTURES \/ to_sq(args.ttm) = args.recaptureSquare)
  /\ args.variant = "probcut" =>
       (capture(mp.pos, args.ttm) /\ see_ge(mp.pos, args.ttm, args.threshold))

FirstStage ==
  IF args.variant = "probcut" THEN PROBCUT_TT
  ELSE IF mp.pos.checkers THEN EVASION_TT
  ELSE IF args.variant = "main" THEN MAIN_TT ELSE QSEARCH_TT

C8_WitnessKept ==
  /\ firstCall # << >>
  /\ args.variant = "probcut"
  /\ HashMoveKept
  /\ firstCall[1].ret = args.ttm

\* C9: for every variant the calls return none after finitely many calls (a
\* call returns none or a move, and at most one move more than the position
\* has generated moves is returned), and once a call has returned none every
\* later call returns none, whatever its skipQuiets flag.
C9_Exhaustion ==
  /\ [](Len(yielded) <= Len(mp.pos.captures) + Len(mp.pos.quiets) + 1)
  /\ [][noneSeen => lastRet' = MOVE_NONE]_vars

C9_Witness ==
  /\ noneSeen
  /\ mp.stage = QCAPTURE
  /\ Len(yielded) >= 2
  /\ \E q \in QuietIds(mp.pos) : mp.pos.quiets[q - QuietBase].check

\* C10: once a call with skipQuiets set has run the quiet stage, that call
\* and every later call return no generated quiet move; the picker is at the
\* bad-capture stage and stays there; the bad captures are still returned.
C10_SkipQuiets ==
  skipAtQuiet =>
    /\ mp.stage = BAD_CAPTURE
    /\ lastRet \notin QuietIds(mp.pos)
    /\ noneSeen =>
         \A c \in CaptureIds(mp.pos) : YieldedAt(c) # {}

C10_Witness ==
  /\ skipAtQuiet
  /\ lastRet \in CaptureIds(mp.pos)
  /\ yielded[Len(yielded)].from = BAD_CAPTURE
  /\ \E q \in QuietIds(mp.pos) :
       /\ YieldedAt(q) = {}
       /\ q \notin {mp.ttMove, mp.killers[1], mp.killers[2], mp.countermove}
  /\ \E i \in 1..Len(yielded) : yielded[i].from = QUIET

(***************************************************************************)
(* Properties of the tree search (checked under Spec)                      *)
(***************************************************************************)
\* an iteration of the loop of search() has completed and the loop goes on
IterationDone == pc = "budget" /\ uct.descentCnt >= 1

\* C1: after every completed iteration of the search loop the live position
\* is the root position again, with nothing left to retract, the stack depth
\* ply is 1 and current_node() is the root.
C1_RootRestoration ==
  IterationDone =>
    /\ uct.pos.id = uct.rootPosition
    /\ uct.pos.st = << >>
    /\ uct.ply = 1
    /\ current_node(uct) = uct.root

\* C2: when backup has finished an iteration, every edge that selection
\* followed in it has one visit more than when backup was entered and the
\* reward (as it is or flipped to the other side) added to its action value,
\* and every node on the path from the expanded node up to the root has one
\* visit more.
C2_BackupStatistics ==
  IterationDone =>
    /\ \A i \in 1..Len(uct.path) :
         LET now    == EdgeAt(UCTTable[uct.path[i].node], uct.path[i].k)
             before == EdgeAt(hist.t[uct.path[i].node], uct.path[i].k)
         IN /\ now.visits = before.visits + 1
            /\ now.actionValue \in {before.actionValue + reward,
                                    before.actionValue + (100 - reward)}
    /\ \A j \in 1..hist.ply :
         UCTTable[hist.nodes[j]].visits = hist.t[hist.nodes[j]].visits + 1

\* the assertions of computational_budget, tree_policy, playout_policy, backup
LoopAsserts ==
  { "computational_budget: current_node() == root",
    "tree_policy: current_node() == root",
    "tree_policy: pos.legal(m)",
    "tree_policy: visits == 0",
    "playout_policy: visits == 0",
    "playout_policy: visits == 1",
    "playout_policy: sons > 0",
    "playout_policy: current_node() == old",
    "backup: current_node() == root" }

\* C3: one call of search() runs exactly 5 selection/expansion/backup cycles
\* and then returns, and none of the assertions of computational_budget,
\* tree_policy, playout_policy and backup fails on the way.
C3_FiveCycles ==
  /\ \A i \in 1..Len(uct.failed) : uct.failed[i] \notin LoopAsserts
  /\ pc # "undefined"
  /\ pc = "best" => (uct.descentCnt = 5 /\ uct.playoutCnt = 5)
  /\ pc = "done" => (uct.descentCnt = 5 /\ uct.playoutCnt = 5)

(***************************************************************************)
(* Properties of best_move (checked under SpecBestMove)                    *)
(***************************************************************************)
\* the UCB score of edge k (from 0) of the node given to best_move
ScoreOf(k) ==
  UCB(UCTTable[node], EdgeAt(UCTTable[node], k), get_exploration_constant(uct)).value

MaximalEdges ==
  {k \in 0..(UCTTable[node].sons - 1) :
     \A j \in 0..(UCTTable[node].sons - 1) : ScoreOf(j) <= ScoreOf(k)}

\* C11: for a node with at least one edge, best_move returns the move of the
\* lowest-index edge whose UCB score is maximal; a later edge of equal score
\* does not replace it.
C11_LowestIndexWins ==
  (pc = "returned" /\ UCTTable[node].sons >= 1) =>
    \E k \in MaximalEdges :
      /\ \A j \in MaximalEdges : k <= j
      /\ result = EdgeAt(UCTTable[node], k).move

C11_Witness ==
  /\ pc = "returned"
  /\ uct.explorationConstant # 0
  /\ UCTTable[node].visits > 1
  /\ Cardinality(MaximalEdges) >= 2
  /\ 0 \notin MaximalEdges
  /\ \E k \in MaximalEdges : EdgeAt(UCTTable[node], k).visits > 0
  /\ \E k \in MaximalEdges : result = EdgeAt(UCTTable[node], k).move

(***************************************************************************)
(* Properties of the expansion (checked under Spec)                        *)
(***************************************************************************)
\* generate_moves has just returned: in the constructor's create_root, or in
\* playout_policy
JustExpanded == pc \in {"constructed", "backup"}

LegalMoves(g, p) ==
  {m \in CaptureIds(g.shape[p]) \cup QuietIds(g.shape[p]) : legal(g, p, m)}

\* the edges 0..sons-1 of the current node
SonsOf(n) == 0..(n.sons - 1)

\* C12: after generate_moves has expanded a node, the node has exactly one
\* edge per legal move of the position, the edges are in descending order of
\* prior, every edge has zero visits and zero action value and the prior of
\* its move, and the node has visits = 1 and expandedSons = 0.
C12_ExpansionResult ==
  JustExpanded =>
    LET n == UCTTable[current_node(uct)]
        L == LegalMoves(uct.game, uct.pos.id)
    IN /\ n.visits = 1
       /\ n.expandedSons = 0
       /\ n.sons = Cardinality(L)
       /\ {EdgeAt(n, k).move : k \in SonsOf(n)} = L
       /\ \A k \in SonsOf(n) :
            /\ EdgeAt(n, k).visits = 0
            /\ EdgeAt(n, k).actionValue = 0
            /\ EdgeAt(n, k).meanActionValue = 0
            /\ EdgeAt(n, k).prior =
                 value_to_reward(Eval(uct.game, Dest(uct.pos.id, EdgeAt(n, k).move)))
       /\ \A j, k \in SonsOf(n) : j < k => EdgeAt(n, j).prior >= EdgeAt(n, k).prior

\* an expansion in playout_policy whose sort moved the move the picker
\* returned last (the losing capture) to the front, past an illegal-free list
\* of three moves
C12_Witness ==
  /\ pc = "backup"
  /\ UCTTable[current_node(uct)].sons = 3
  /\ EdgeAt(UCTTable[current_node(uct)], 0).move = 1
  /\ EdgeAt(UCTTable[current_node(uct)], 0).prior
       > EdgeAt(UCTTable[current_node(uct)], 1).prior
  /\ EdgeAt(UCTTable[current_node(uct)], 1).prior
       > EdgeAt(UCTTable[current_node(uct)], 2).prior

(***************************************************************************)
(* Properties of the node table (checked under Spec)                       *)
(***************************************************************************)
Slots == 0..(TableSize - 1)

\* C13: in every reachable state every node of the table has sons = 0 while
\* it is unexpanded, has visits = 0 exactly when it is unexpanded, and once
\* expanded has as many sons as edges were recorded for it, no more than
\* the capacity of its edge list.
C13_NodeInvariant ==
  \A i \in Slots :
    /\ ~UCTTable[i].hExpanded => UCTTable[i].sons = 0
    /\ (UCTTable[i].visits = 0) = ~UCTTable[i].hExpanded
    /\ UCTTable[i].hExpanded =>
         /\ UCTTable[i].sons = UCTTable[i].hRecorded
         /\ UCTTable[i].sons <= MAX_EDGES

\* a slot that held an expanded node with edges was taken over by another
\* position during a descent and has not been expanded again
C13_Witness ==
  \E i \in Slots :
    /\ ~UCTTable[i].hExpanded
    /\ UCTTable[i].key1 # 0
    /\ Len(UCTTable[i].edges) >= 2
    /\ pc = "playout"
    /\ current_node(uct) = i
    /\ uct.ply >= 3

\* C14: create_root resets the whole table at the start of search(), so no
\* node made by the constructor's create_root is found as an existing,
\* expanded node: the root is expanded anew by the create_root of search(),
\* one prior computed per edge, and no other slot holds an expanded node.
C14_TableReset ==
  (pc = "budget" /\ uct.descentCnt = 0) =>
    /\ uct.priorCnt = UCTTable[uct.root].sons
    /\ \A i \in Slots : i # uct.root => ~UCTTable[i].hExpanded

\* C15: when lookups during a search re-initialise occupied slots, the root's
\* slot included, search() still returns a move that is an edge of the root
\* position and legal in it (the root position having a legal move).
C15_CollisionsHarmless ==
  (pc = "done" /\ LegalMoves(uct.game, uct.rootPosition) # {}) =>
    result \in LegalMoves(uct.game, uct.rootPosition)

\* the reward of a position without legal moves for the side to move, in
\* hundredths: a loss when in check (checkmate), a draw otherwise (stalemate)
TerminalReward(g, p) == IF g.shape[p].checkers THEN 0 ELSE 50

\* C16: when the node selected for expansion has no legal move, the
\* expansion step yields the terminal reward, not the prior of edge 0 of an
\* empty edge list, and no later selection advances the position from that
\* node with the none move.
C16_TerminalPositions ==
  /\ (pc = "backup" /\ UCTTable[current_node(uct)].sons = 0) =>
       reward = TerminalReward(uct.game, uct.pos.id)
  /\ \A i \in 1..Len(uct.failed) : uct.failed[i] # "playout_policy: sons > 0"
  /\ ~(pc \in {"undefined", "abort"}
       /\ uct.path # << >>
       /\ uct.path[Len(uct.path)].k = -1)

\* the quiet moves the quiet stage has to return: the generated quiet moves
\* other than the hash move, both killers and the countermove
QuietDue ==
  {m \in QuietIds(mp.pos) :
     m \notin {mp.ttMove, mp.killers[1], mp.killers[2], mp.countermove}}

QuietStageContent ==
  /\ \A i \in 1..Len(QuietYields) :
       /\ QuietYields[i].move \in QuietDue
       /\ \A j \in 1..Len(QuietYields) :
            i # j => QuietYields[i].move # QuietYields[j].move
  /\ mp.stage > QUIET =>
       \A m \in QuietDue : \E i \in 1..Len(QuietYields) : QuietYields[i].move = m

QuietScore(i) == score_QUIETS(mp.pos, QuietYields[i].move)

C17_KillerWitness ==
  /\ MainPicker /\ ~skipAtQuiet /\ mp.stage > QUIET
  /\ \E m \in QuietIds(mp.pos) : m \in {mp.killers[1], mp.killers[2]}
  /\ Len(QuietYields) >= 1

\* two moves below the cutoff were returned worse one first
C17_BelowCutoffWitness ==
  /\ MainPicker /\ ~skipAtQuiet
  /\ Len(QuietYields) = 2
  /\ QuietScore(1) < QuietScore(2)
  /\ QuietScore(2) < QuietLimit

\* the moves returned so far by the case label st, in the order returned
YieldsFrom(st) == SelectSeq(yielded, LAMBDA y : y.from = st)

NoRepeat(ys) == \A i, j \in 1..Len(ys) : i # j => ys[i].move # ys[j].move

\* the hash stage st returned the hash move, and only as the first move
HashFirst(st) ==
  \A i \in 1..Len(yielded) :
    yielded[i].from = st => (i = 1 /\ yielded[i].move = mp.ttMove)

EvasionPicker == mp.pos.checkers /\ args.variant \in {"main", "qsearch"}

EvasionsDue == (CaptureIds(mp.pos) \cup QuietIds(mp.pos)) \ {mp.ttMove}

\* C18: when the position is in check, after the optional hash move every
\* generated evasion other than the hash move is returned exactly once, in
\* non-increasing score order, every capturing evasion before any quiet
\* evasion, and the picker never enters a killer, countermove, quiet or
\* bad-capture stage (nor any stage other than the evasion ones).
C18_Evasions ==
  EvasionPicker =>
    LET ev == YieldsFrom(EVASION)
    IN /\ mp.stage \in {EVASION_TT, EVASION_INIT, EVASION}
       /\ \A i \in 1..Len(yielded) : yielded[i].from \in {EVASION_TT, EVASION}
       /\ HashFirst(EVASION_TT)
       /\ NoRepeat(ev)
       /\ \A i \in 1..Len(ev) : ev[i].move \in EvasionsDue
       /\ \A i, j \in 1..Len(ev) :
            i < j => /\ score_EVASIONS(mp.pos, ev[i].move)
                          >= score_EVASIONS(mp.pos, ev[j].move)
                     /\ capture(mp.pos, ev[j].move) => capture(mp.pos, ev[i].move)
       /\ noneSeen => \A m \in EvasionsDue : \E i \in 1..Len(ev) : ev[i].move = m

\* in check the picker returned the hash move, then the second generated
\* capture before the first one, then a quiet evasion, then none
C18_Witness ==
  /\ EvasionPicker /\ noneSeen
  /\ Len(yielded) >= 4
  /\ yielded[1].from = EVASION_TT
  /\ yielded[2].move = 2 /\ yielded[3].move = 1
  /\ yielded[Len(yielded)].move \in QuietIds(mp.pos)

QSPicker == args.variant = "qsearch" /\ ~mp.pos.checkers

\* the captures the quiescence capture stage has to return
QSCapturesDue ==
  {c \in CaptureIds(mp.pos) :
     /\ c # mp.ttMove
     /\ (mp.depth > DEPTH_QS_RECAPTURES \/ to_sq(c) = mp.recaptureSquare)}

\* the quiet checks the check stage has to return, in generation order
QSChecksDue ==
  SelectSeq(generate_QUIET_CHECKS(mp.pos), LAMBDA m : m # mp.ttMove)

QSYields ==
  LET qc == YieldsFrom(QCAPTURE)
      qk == YieldsFrom(QCHECK)
  IN /\ \A i \in 1..Len(yielded) : yielded[i].from \in {QSEARCH_TT, QCAPTURE, QCHECK}
     /\ \A i, j \in 1..Len(yielded) : i < j => yielded[i].from <= yielded[j].from
     /\ HashFirst(QSEARCH_TT)
     /\ NoRepeat(qc)
     /\ \A i \in 1..Len(qc) : qc[i].move \in QSCapturesDue
     /\ \A i, j \in 1..Len(qc) :
          i < j => score_CAPTURES(mp.pos, qc[i].move)
                     >= score_CAPTURES(mp.pos, qc[j].move)
     /\ (noneSeen \/ qk # << >>) =>
          \A c \in QSCapturesDue : \E i \in 1..Len(qc) : qc[i].move = c
     /\ qk # << >> => mp.depth = DEPTH_QS_CHECKS
     /\ Len(qk) <= Len(QSChecksDue)
     /\ \A i \in 1..Len(qk) : qk[i].move = QSChecksDue[i]
     /\ (noneSeen /\ mp.depth = DEPTH_QS_CHECKS) => Len(qk) = Len(QSChecksDue)

\* C19: in the quiescence variant, not in check, the captures returned are
\* those other than the hash move for which the depth is above
\* DEPTH_QS_RECAPTURES or whose destination is the recapture square, best
\* first; when they are exhausted the call returns none, and so does every
\* later call, unless depth = DEPTH_QS_CHECKS, in which case the quiet checks
\* other than the hash move are returned once each in generation order.
C19_Quiescence ==
  /\ [](QSPicker => QSYields)
  /\ [][(QSPicker /\ noneSeen) => (lastRet' = MOVE_NONE /\ yielded' = yielded)]_vars
  /\ [][(QSPicker /\ mp.depth # DEPTH_QS_CHECKS
           /\ mp.stage \in {QCAPTURE_INIT, QCAPTURE}
           /\ \A c \in QSCapturesDue : YieldedAt(c) # {})
          => (lastRet' = MOVE_NONE /\ mp'.stage = QCAPTURE)]_vars

\* at depth DEPTH_QS_CHECKS the picker returned a capture, then a quiet
\* check generated after the hash move, itself a quiet check, and then none
C19_Witness ==
  /\ QSPicker /\ noneSeen
  /\ mp.depth = DEPTH_QS_CHECKS
  /\ mp.ttMove = QuietBase + 1 /\ mp.pos.quiets[1].check
  /\ YieldsFrom(QCAPTURE) # << >>
  /\ \E i \in 1..Len(yielded) :
       yielded[i].from = QCHECK /\ yielded[i].move = QuietBase + 2

\* at depth DEPTH_QS_RECAPTURES the picker returned the capture on the
\* recapture square, withheld another capture, and then returned none
C19_RecaptureWitness ==
  /\ QSPicker /\ noneSeen
  /\ mp.depth = DEPTH_QS_RECAPTURES
  /\ Len(mp.pos.captures) = 2
  /\ Len(yielded) = 1 /\ yielded[1].from = QCAPTURE

ProbcutPicker == args.variant = "probcut"

\* the captures the probcut stage has to return
ProbcutDue ==
  {c \in CaptureIds(mp.pos) :
     c # mp.ttMove /\ see_ge(mp.pos, c, mp.threshold)}

\* C20: in the probcut variant, after the optional hash move, the calls
\* return exactly the generated captures other than the hash move whose
\* static exchange value is at least the threshold, each once, in
\* non-increasing score order; captures below the threshold are never
\* returned, and the picker never leaves the probcut stages.
C20_Probcut ==
  ProbcutPicker =>
    LET pr == YieldsFrom(PROBCUT)
    IN /\ mp.stage \in {PROBCUT_TT, PROBCUT_INIT, PROBCUT}
       /\ \A i \in 1..Len(yielded) : yielded[i].from \in {PROBCUT_TT, PROBCUT}
       /\ HashFirst(PROBCUT_TT)
       /\ NoRepeat(pr)
       /\ \A i \in 1..Len(pr) : pr[i].move \in ProbcutDue
       /\ \A i, j \in 1..Len(pr) :
            i < j => score_CAPTURES(mp.pos, pr[i].move)
                       >= score_CAPTURES(mp.pos, pr[j].move)
       /\ noneSeen => \A c \in ProbcutDue : \E i \in 1..Len(pr) : pr[i].move = c

\* the probcut picker returned the second generated capture and then none,
\* dropping the first capture, whose static exchange value is below the
\* threshold although its score is the higher one
C20_Witness ==
  /\ ProbcutPicker /\ noneSeen
  /\ Len(mp.pos.captures) = 2
  /\ Len(yielded) = 1 /\ yielded[1].from = PROBCUT /\ yielded[1].move = 2
  /\ mp.ttMove = MOVE_NONE
  /\ score_CAPTURES(mp.pos, 1) > score_CAPTURES(mp.pos, 2)

\* both captures pass the threshold and the second generated one, with the
\* higher score, was returned first
C20_OrderWitness ==
  /\ ProbcutPicker /\ noneSeen
  /\ Len(yielded) = 2
  /\ yielded[1].move = 2 /\ yielded[2].move = 1
  /\ score_CAPTURES(mp.pos, 2) > score_CAPTURES(mp.pos, 1)

\* the position looked up matches the node n in both keys
KeysMatch(n, p) == n.key1 = Key(p) /\ n.key2 = PawnKey(p)

\* C21: get_node returns the slot of the position's primary key; the node in
\* it is unchanged if and only if both keys of the slot matched the position,
\* otherwise the slot carries the position's keys and visits = 0, sons = 0,
\* expandedSons = 0, lastMove = none; no other slot of the table is changed.
C21_Lookup ==
  pc = "looked_up" =>
    LET p      == uct.pos.id
        slot   == SlotOf(Key(p))
        before == hist.t[slot]
        after  == UCTTable[slot]
    IN /\ node = slot
       /\ (after = before) = KeysMatch(before, p)
       /\ KeysMatch(after, p)
       /\ ~KeysMatch(before, p) =>
            /\ after.visits = 0 /\ after.sons = 0
            /\ after.expandedSons = 0 /\ after.lastMove = MOVE_NONE
       /\ \A i \in 0..(TableSize - 1) : i # slot => UCTTable[i] = hist.t[i]

\* a lookup found an expanded node of a position with the same primary key
\* but another pawn key and re-initialised it, with an expanded node in the
\* other slot
C21_Witness ==
  /\ pc = "looked_up"
  /\ hist.t[node].key1 = Key(uct.pos.id)
  /\ hist.t[node].key2 # PawnKey(uct.pos.id)
  /\ hist.t[node].visits = 1 /\ hist.t[node].sons = 2
  /\ UCTTable[node].visits = 0
  /\ \E i \in 0..(TableSize - 1) : i # node /\ UCTTable[i].visits = 1

\* a lookup found the expanded node of the position and left it as it was
C21_HitWitness ==
  /\ pc = "looked_up"
  /\ KeysMatch(hist.t[node], uct.pos.id)
  /\ UCTTable[node].visits = 1 /\ UCTTable[node].sons = 2

\* the descent of the last tree_policy call chose an edge at every step
ChoseEdges == \A i \in 1..Len(uct.path) : uct.path[i].k >= 0

\* C22: a call of tree_policy started at the root returns, after finitely
\* many advances, the first node of its descent whose visits is 0, and ply
\* stays within the capacity of nodes[] and of the stack, also when moves
\* lead back to positions whose nodes are expanded.
C22_SelectionTerminates ==
  /\ pc = "selected" =>
       /\ node = current_node(uct)
       /\ UCTTable[node].visits = 0
       /\ uct.ply <= MaxPly
       /\ \A i \in 1..Len(uct.path) : hist.t[uct.path[i].node].visits > 0
  /\ ~(pc = "undefined" /\ ChoseEdges /\ uct.ply >= MaxPly)

\* one prior computation from the present state, for the legal move m: the
\* position, its state list and ply come back as they were, one move was
\* made, the frame of the present ply records m, and the evaluation wrote the
\* frame of the next ply
PriorRestores(m) ==
  LET r == calculate_prior(uct, m, 1).u
  IN /\ r.pos = uct.pos
     /\ r.ply = uct.ply
     /\ r.doMoveCnt = uct.doMoveCnt + 1
     /\ r.priorCnt = uct.priorCnt + 1
     /\ r.stack[uct.ply].currentMove = m
     /\ r.stack[uct.ply + 1].currentMove = MOVE_NONE
     /\ \A i \in 0..(MaxPly + 1) :
          i \notin {uct.ply, uct.ply + 1} => r.stack[i] = uct.stack[i]

PriorFrame ==
  (pc \notin {"undefined", "abort"} /\ uct.ply < MaxPly) =>
    \A m \in LegalMoves(uct.game, uct.pos.id) : PriorRestores(m)

\* a step of search() that runs generate_moves: create_root, playout_policy
Expands == pc \in {"constructed", "playout"}

\* C23: every prior computation makes one move and takes that same move back
\* (the evaluation in between writes another stack frame than the one that
\* records the move), and after generate_moves the position, its state list
\* and ply are those before it, with one move made per prior computed.
C23_ExpansionFrame ==
  /\ []PriorFrame
  /\ [][Expands => /\ uct'.pos = uct.pos
                   /\ uct'.ply = uct.ply
                   /\ pc = "constructed" => uct'.doMoveCnt = uct'.priorCnt
                   /\ pc = "playout" =>
                        /\ uct'.doMoveCnt - uct.doMoveCnt
                             = uct'.priorCnt - uct.priorCnt
                        /\ uct'.priorCnt - uct.priorCnt
                             = UCTTable'[current_node(uct)].sons]_vars

\* playout_policy has expanded a node two moves below the root with three
\* legal moves, computing three priors
C23_Witness ==
  /\ pc = "backup"
  /\ uct.ply = 3 /\ Len(uct.pos.st) = 2
  /\ UCTTable[current_node(uct)].sons = 3
  /\ uct.stack[uct.ply].currentMove # MOVE_NONE
  /\ uct.doMoveCnt >= 5

\* the root's slot holds the node of the root position, with an edge
RootIntact ==
  /\ uct.root # NullNode
  /\ KeysMatch(UCTTable[uct.root], uct.rootPosition)
  /\ UCTTable[uct.root].sons >= 1

\* no edge recorded in the table has a visit or an action value
EdgesUntouched ==
  \A i \in Slots : \A k \in 1..Len(UCTTable[i].edges) :
    /\ UCTTable[i].edges[k].visits = 0
    /\ UCTTable[i].edges[k].actionValue = 0

====
